---- MODULE Spec2Model ----
(***************************************************************************)
(* A model of the Clonar recommendations / search service (python/app.py). *)
(*                                                                         *)
(* Text that the code inspects character by character (queries, thumbnail  *)
(* URLs) is a sequence of one-character strings; a JSON value is a tagged  *)
(* record whose field t names its Python type.                             *)
(***************************************************************************)
EXTENDS Integers, Sequences, FiniteSets, TLC

VARIABLES
    SERPAPI_KEY,     \* os.getenv("SERPAPI_KEY"): "" when not configured
    MOCK_PRODUCTS,   \* the module-level catalog list
    rng,             \* the state of the process-wide generator of `random`
    rec_log,         \* the calls of get_recommendations so far, in order
    req,             \* request id -> the state of one /search request
    cls_query,       \* detect_query_type: its argument
    cls_result,      \* detect_query_type: its result ("none" before the call)
    ext_input,       \* extractors: the raw_results argument
    ext_output,      \* extractors: what each extractor gave ("none" before)
    loop             \* the event loop: the task that holds it, and the locals
                     \* of each get_recommendations task run step by step

vars == << SERPAPI_KEY, MOCK_PRODUCTS, rng, rec_log, req,
           cls_query, cls_result, ext_input, ext_output, loop >>

-----------------------------------------------------------------------------
(* Text *)

UpperToLower ==
    [A |-> "a", B |-> "b", C |-> "c", D |-> "d", E |-> "e", F |-> "f",
     G |-> "g", H |-> "h", I |-> "i", J |-> "j", K |-> "k", L |-> "l",
     M |-> "m", N |-> "n", O |-> "o", P |-> "p", Q |-> "q", R |-> "r",
     S |-> "s", T |-> "t", U |-> "u", V |-> "v", W |-> "w", X |-> "x",
     Y |-> "y", Z |-> "z"]

\* a mutant of lower: the query is matched as typed
lower_identity(s) == s

\* str.lower() on ASCII text
lower(s) ==
    [i \in 1..Len(s) |-> IF s[i] \in DOMAIN UpperToLower
                         THEN UpperToLower[s[i]] ELSE s[i]]

\* Python's `needle in hay` on text
contains(hay, needle) ==
    \E i \in 1..(Len(hay) - Len(needle) + 1) :
        SubSeq(hay, i, i + Len(needle) - 1) = needle

Range(seq) == { seq[i] : i \in 1..Len(seq) }

-----------------------------------------------------------------------------
(* detect_query_type *)

hotel_keywords ==
    << <<"h","o","t","e","l">>,
       <<"h","o","t","e","l","s">>,
       <<"m","o","t","e","l">>,
       <<"m","o","t","e","l","s">>,
       <<"s","t","a","y">>,
       <<"r","o","o","m">>,
       <<"r","o","o","m","s">>,
       <<"r","e","s","o","r","t">>,
       <<"r","e","s","o","r","t","s">>,
       <<"a","c","c","o","m","m","o","d","a","t","i","o","n">>,
       <<"a","c","c","o","m","m","o","d","a","t","i","o","n","s">>,
       <<"b","o","o","k","i","n","g">>,
       <<"b","o","o","k">>,
       <<"l","o","d","g","i","n","g">>,
       <<"i","n","n">>,
       <<"h","o","s","t","e","l">>,
       <<"h","o","s","t","e","l","s">>,
       <<"b","e","d"," ","a","n","d"," ","b","r","e","a","k","f","a","s","t">>,
       <<"b","&","b">>,
       <<"v","a","c","a","t","i","o","n"," ","r","e","n","t","a","l">>,
       <<"a","i","r","b","n","b">>,
       <<"t","r","i","p">>,
       <<"t","r","a","v","e","l">>,
       <<"d","e","s","t","i","n","a","t","i","o","n">> >>

hotel_brands ==
    << <<"m","a","r","r","i","o","t","t">>,
       <<"h","i","l","t","o","n">>,
       <<"h","y","a","t","t">>,
       <<"s","h","e","r","a","t","o","n">>,
       <<"r","i","t","z">>,
       <<"h","o","l","i","d","a","y"," ","i","n","n">>,
       <<"w","e","s","t","i","n">>,
       <<"f","a","i","r","f","i","e","l","d">>,
       <<"c","o","u","r","t","y","a","r","d">>,
       <<"h","a","m","p","t","o","n">>,
       <<"e","m","b","a","s","s","y"," ","s","u","i","t","e","s">>,
       <<"d","o","u","b","l","e","t","r","e","e">>,
       <<"s","t"," ","r","e","g","i","s">>,
       <<"f","o","u","r"," ","s","e","a","s","o","n","s">>,
       <<"m","o","t","e","l"," ","6">>,
       <<"b","e","s","t"," ","w","e","s","t","e","r","n">> >>

\* a mutant of detect_query_type: the brand list is not consulted
detect_query_type_no_brands(query) ==
    LET query_lower == lower(query)
    IN  IF \E k \in DOMAIN hotel_keywords :
               contains(query_lower, hotel_keywords[k])
        THEN "hotel"
        ELSE "shopping"

detect_query_type(query) ==
    LET query_lower == lower(query)
    IN  IF \E k \in DOMAIN hotel_keywords :
               contains(query_lower, hotel_keywords[k])
        THEN "hotel"
        ELSE IF \E b \in DOMAIN hotel_brands :
                    contains(query_lower, hotel_brands[b])
        THEN "hotel"
        ELSE "shopping"

-----------------------------------------------------------------------------
(* JSON values as Python sees them *)

Str(chars)  == [t |-> "str",  s |-> chars]
Num(n)      == [t |-> "int",  n |-> n]
List(items) == [t |-> "list", items |-> items]
Dict(d)     == [t |-> "dict", map |-> d]
None        == [t |-> "null"]

EmptyStr  == Str(<<>>)
EmptyDict == Dict([k \in {} |-> None])

\* bool(x)
truthy(x) ==
    CASE x.t = "str"  -> x.s # <<>>
      [] x.t = "int"  -> x.n # 0
      [] x.t = "list" -> x.items # <<>>
      [] x.t = "dict" -> DOMAIN x.map # {}
      [] OTHER        -> FALSE

\* a or b
py_or(a, b) == IF truthy(a) THEN a ELSE b

\* the outcome of an evaluation: a value, or the exception it raised
Ok(val)    == [ok |-> TRUE,  val |-> val]
Raise(exc) == [ok |-> FALSE, exc |-> exc]

\* d.get(key, default) on the mapping d of a dict value
dict_get(d, key, default) == IF key \in DOMAIN d THEN d[key] ELSE default

Whitespace == {" ", "\t", "\n"}

RECURSIVE lstrip(_)
lstrip(s) ==
    IF s # <<>> /\ Head(s) \in Whitespace THEN lstrip(Tail(s)) ELSE s

RECURSIVE rstrip(_)
rstrip(s) ==
    IF s # <<>> /\ s[Len(s)] \in Whitespace
    THEN rstrip(SubSeq(s, 1, Len(s) - 1)) ELSE s

\* str.strip()
strip(s) == rstrip(lstrip(s))

RECURSIVE SetToSeq(_)
SetToSeq(S) ==
    IF S = {} THEN <<>>
    ELSE LET x == CHOOSE y \in S : TRUE IN <<x>> \o SetToSeq(S \ {x})

\* `for item in x`: the items, or TypeError when x is not iterable.  A str
\* gives its characters; a dict gives its keys, each a str known by name.
iterate(x) ==
    CASE x.t = "list" -> Ok(x.items)
      [] x.t = "str"  -> Ok([i \in 1..Len(x.s) |-> Str(<<x.s[i]>>)])
      [] x.t = "dict" -> LET keys == SetToSeq(DOMAIN x.map)
                         IN  Ok([i \in 1..Len(keys) |-> Str(<<keys[i]>>)])
      [] OTHER        -> Raise("TypeError")

\* a mutant of collect: each result is put in front of the earlier ones
\* (results.insert(0, ...))
RECURSIVE collect_prepending(_)
collect_prepending(outcomes) ==
    IF outcomes = <<>> THEN Ok(<<>>)
    ELSE IF ~Head(outcomes).ok THEN Head(outcomes)
    ELSE LET rest == collect_prepending(Tail(outcomes))
         IN  IF rest.ok THEN Ok(rest.val \o <<Head(outcomes).val>>) ELSE rest

\* a comprehension or loop body applied to each item in order: the list of
\* results, or the exception of the first item whose body raised
RECURSIVE collect(_)
collect(outcomes) ==
    IF outcomes = <<>> THEN Ok(<<>>)
    ELSE IF ~Head(outcomes).ok THEN Head(outcomes)
    ELSE LET rest == collect(Tail(outcomes))
         IN  IF rest.ok THEN Ok(<<Head(outcomes).val>> \o rest.val) ELSE rest

-----------------------------------------------------------------------------
(* extract_shopping_results *)

\* a mutant of shopping_record: link is read without the product_link fallback
shopping_record_link_only(item) ==
    IF item.t # "dict" THEN Raise("AttributeError")
    ELSE LET d == item.map
         IN  Ok([title           |-> dict_get(d, "title", EmptyStr),
                 price           |-> dict_get(d, "price", EmptyStr),
                 link            |-> dict_get(d, "link", EmptyStr),
                 source          |-> dict_get(d, "source", EmptyStr),
                 thumbnail       |-> dict_get(d, "thumbnail", EmptyStr),
                 tag             |-> dict_get(d, "tag", EmptyStr),
                 delivery        |-> dict_get(d, "delivery", EmptyStr),
                 rating          |-> dict_get(d, "rating", EmptyStr),
                 reviews         |-> dict_get(d, "reviews", EmptyStr),
                 extracted_price |-> dict_get(d, "extracted_price", EmptyStr),
                 old_price       |-> dict_get(d, "extracted_price_old", EmptyStr)])

\* one element of the comprehension: item.get on a non-dict raises
shopping_record(item) ==
    IF item.t # "dict" THEN Raise("AttributeError")
    ELSE LET d == item.map
         IN  Ok([title           |-> dict_get(d, "title", EmptyStr),
                 price           |-> dict_get(d, "price", EmptyStr),
                 link            |-> py_or(dict_get(d, "link", None),
                                           dict_get(d, "product_link", EmptyStr)),
                 source          |-> dict_get(d, "source", EmptyStr),
                 thumbnail       |-> dict_get(d, "thumbnail", EmptyStr),
                 tag             |-> dict_get(d, "tag", EmptyStr),
                 delivery        |-> dict_get(d, "delivery", EmptyStr),
                 rating          |-> dict_get(d, "rating", EmptyStr),
                 reviews         |-> dict_get(d, "reviews", EmptyStr),
                 extracted_price |-> dict_get(d, "extracted_price", EmptyStr),
                 old_price       |-> dict_get(d, "extracted_price_old", EmptyStr)])

extract_shopping_results(raw_results) ==
    LET items == iterate(raw_results)
    IN  IF ~items.ok THEN items
        ELSE collect([i \in 1..Len(items.val) |-> shopping_record(items.val[i])])

-----------------------------------------------------------------------------
(* extract_hotel_results *)

\* a mutant of image_urls: blank thumbnails are kept
RECURSIVE image_urls_keep_blank(_)
image_urls_keep_blank(images) ==
    IF images = <<>> THEN Ok(<<>>)
    ELSE LET img  == Head(images)
             rest == image_urls_keep_blank(Tail(images))
         IN  IF img.t = "dict" /\ "thumbnail" \in DOMAIN img.map
             THEN LET thumbnail_url == img.map["thumbnail"]
                  IN  IF thumbnail_url.t # "str" THEN Raise("AttributeError")
                      ELSE IF rest.ok THEN Ok(<<thumbnail_url>> \o rest.val)
                      ELSE rest
             ELSE rest

\* the loop over the images array (lines 136-141): the thumbnail URLs kept,
\* or AttributeError when a truthy thumbnail has no strip()
RECURSIVE image_urls(_)
image_urls(images) ==
    IF images = <<>> THEN Ok(<<>>)
    ELSE LET img  == Head(images)
             rest == image_urls(Tail(images))
         IN  IF img.t = "dict" /\ "thumbnail" \in DOMAIN img.map
             THEN LET thumbnail_url == img.map["thumbnail"]
                  IN  IF ~truthy(thumbnail_url) THEN rest
                      ELSE IF thumbnail_url.t # "str"
                      THEN Raise("AttributeError")
                      ELSE IF strip(thumbnail_url.s) = <<>> THEN rest
                      ELSE IF rest.ok THEN Ok(<<thumbnail_url>> \o rest.val)
                      ELSE rest
             ELSE rest

\* lines 153-158
hotel_amenities(d) ==
    IF "amenities" \in DOMAIN d
    THEN CASE d["amenities"].t = "list" -> d["amenities"]
           [] d["amenities"].t = "str"  -> List(<<d["amenities"]>>)
           [] OTHER                     -> List(<<>>)
    ELSE List(<<>>)

\* lines 163-166 and 169-173: the keys added for a truthy nested object
hotel_booking(booking_info) ==
    IF truthy(booking_info)
    THEN ("booking_link" :> dict_get(booking_info.map, "link", EmptyStr)) @@
         ("booking_site" :> dict_get(booking_info.map, "name", EmptyStr))
    ELSE [k \in {} |-> None]

hotel_location(location) ==
    IF truthy(location)
    THEN ("city"    :> dict_get(location.map, "city", EmptyStr)) @@
         ("state"   :> dict_get(location.map, "state", EmptyStr)) @@
         ("country" :> dict_get(location.map, "country", EmptyStr))
    ELSE [k \in {} |-> None]

\* one pass of the loop body (lines 121-178) for a dict item
hotel_data(d) ==
    LET rate_per_night == dict_get(d, "rate_per_night", EmptyDict)
        images         == dict_get(d, "images", List(<<>>))
        urls           == IF truthy(images) /\ images.t = "list"
                          THEN image_urls(images.items) ELSE Ok(<<>>)
        booking_info   == dict_get(d, "booking", EmptyDict)
        location       == dict_get(d, "location", EmptyDict)
    IN  IF rate_per_night.t # "dict" THEN Raise("AttributeError")
        ELSE IF ~urls.ok THEN urls
        ELSE IF truthy(booking_info) /\ booking_info.t # "dict"
        THEN Raise("AttributeError")
        ELSE IF truthy(location) /\ location.t # "dict"
        THEN Raise("AttributeError")
        ELSE Ok(
            [name        |-> dict_get(d, "name", EmptyStr),
             address     |-> dict_get(d, "address", EmptyStr),
             price       |-> dict_get(rate_per_night.map, "lowest", EmptyStr),
             rating      |-> dict_get(d, "overall_rating", EmptyStr),
             reviews     |-> dict_get(d, "reviews", EmptyStr),
             thumbnail   |-> IF urls.val # <<>> THEN urls.val[1]
                             ELSE dict_get(d, "thumbnail", EmptyStr),
             link        |-> dict_get(d, "link", EmptyStr),
             images      |-> List(urls.val),
             amenities   |-> hotel_amenities(d),
             description |-> dict_get(d, "description", EmptyStr)]
            @@ hotel_booking(booking_info) @@ hotel_location(location))

extract_hotel_results(raw_results) ==
    LET items == iterate(raw_results)
    IN  IF ~items.ok THEN items
        ELSE collect([i \in 1..Len(items.val) |->
                        IF items.val[i].t # "dict" THEN Raise("AttributeError")
                        ELSE hotel_data(items.val[i].map)])

-----------------------------------------------------------------------------
(* get_recommendations *)

\* the value MOCK_PRODUCTS is bound to at import (prices in cents)
CATALOG ==
    <<
       [id |-> 1, name |-> "Classic White T-Shirt", price |-> 2999, image_url |-> "https://example.com/tshirt.jpg", category |-> "tops"],
       [id |-> 2, name |-> "Blue Jeans", price |-> 7999, image_url |-> "https://example.com/jeans.jpg", category |-> "bottoms"],
       [id |-> 3, name |-> "Black Sneakers", price |-> 12999, image_url |-> "https://example.com/sneakers.jpg", category |-> "shoes"],
       [id |-> 4, name |-> "Red Dress", price |-> 8999, image_url |-> "https://example.com/dress.jpg", category |-> "dresses"],
       [id |-> 5, name |-> "Leather Jacket", price |-> 19999, image_url |-> "https://example.com/jacket.jpg", category |-> "outerwear"],
       [id |-> 6, name |-> "Striped Sweater", price |-> 5999, image_url |-> "https://example.com/sweater.jpg", category |-> "tops"],
       [id |-> 7, name |-> "Black Pants", price |-> 6999, image_url |-> "https://example.com/pants.jpg", category |-> "bottoms"],
       [id |-> 8, name |-> "White Sneakers", price |-> 11999, image_url |-> "https://example.com/white-sneakers.jpg", category |-> "shoes"],
       [id |-> 9, name |-> "Summer Dress", price |-> 7999, image_url |-> "https://example.com/summer-dress.jpg", category |-> "dresses"],
       [id |-> 10, name |-> "Denim Jacket", price |-> 8999, image_url |-> "https://example.com/denim-jacket.jpg", category |-> "outerwear"]
    >>

\* The process-wide generator of the `random` module.  Its state is one
\* number and one step is a Lehmer step; this stands for the Mersenne
\* Twister, of which the service uses only that it is deterministic, that
\* seed() fixes the whole state, and that every draw advances it.
RngStates == 1..250

random_next(state) == (state * 6) % 251

\* a mutant of random_seed: the generator is left as the last caller left it
random_seed_absent(state, a) == state

\* random.seed(a) for an int: the state becomes a function of abs(a) alone
random_seed(state, a) == 1 + (((IF a < 0 THEN -a ELSE a) * 43) % 250)

\* _randbelow(n): one draw
randbelow(state, n) == [value |-> random_next(state) % n,
                        state |-> random_next(state)]

\* random.randint(a, b)
random_randint(state, a, b) ==
    LET d == randbelow(state, b - a + 1)
    IN  [value |-> a + d.value, state |-> d.state]

\* a mutant of random_sample: the drawn slot is not replaced (random.choices)
RECURSIVE random_sample_with_replacement(_, _, _)
random_sample_with_replacement(state, pool, k) ==
    IF k = 0 THEN [value |-> <<>>, state |-> state]
    ELSE LET d    == randbelow(state, Len(pool))
             rest == random_sample_with_replacement(d.state, pool, k - 1)
         IN  [value |-> <<pool[d.value + 1]>> \o rest.value,
              state |-> rest.state]

\* random.sample(population, k) for a short population: a copy of it is the
\* pool, each draw takes pool[j] and moves the pool's last live slot to j
RECURSIVE random_sample(_, _, _)
random_sample(state, pool, k) ==
    IF k = 0 THEN [value |-> <<>>, state |-> state]
    ELSE LET n    == Len(pool)
             d    == randbelow(state, n)
             j    == d.value + 1
             rest == random_sample(d.state,
                                   SubSeq([pool EXCEPT ![j] = pool[n]], 1, n - 1),
                                   k - 1)
         IN  [value |-> <<pool[j]>> \o rest.value, state |-> rest.state]

\* a mutant of random_uniform_score: the upper end of the range is 1.0
random_uniform_score_to_one(state) ==
    LET s == random_next(state)
    IN  [value |-> (2 * (70 * 251 + 30 * s) + 251) \div (2 * 251),
         state |-> s]

\* round(random.uniform(0.7, 0.95), 2), in hundredths
random_uniform_score(state) ==
    LET s == random_next(state)
    IN  [value |-> (2 * (70 * 251 + 25 * s) + 251) \div (2 * 251),
         state |-> s]

\* lines 49-62: the response, and the generator state the call leaves
recommendation(state, userId, catalog) ==
    LET seeded == random_seed(state, userId)
        num_recommendations  == random_randint(seeded, 3, 5)
        recommended_products == random_sample(num_recommendations.state, catalog,
                                              num_recommendations.value)
        personalization_score == random_uniform_score(recommended_products.state)
    IN  [response |->
            [recommendations       |-> recommended_products.value,
             personalization_score |-> personalization_score.value,
             user_id               |-> userId,
             algorithm             |-> "mock_content_based",
             total_products        |-> Len(catalog)],
         state |-> personalization_score.state]

\* how many calls of get_recommendations a behaviour holds
MaxRecCalls == 3

\* a mutant of get_recommendations: the catalog is shuffled in place and its
\* first items are returned (random.shuffle(MOCK_PRODUCTS))
get_recommendations_shuffling(userId) ==
    LET seeded   == random_seed(rng, userId)
        num      == random_randint(seeded, 3, 5)
        shuffled == random_sample(num.state, MOCK_PRODUCTS, Len(MOCK_PRODUCTS))
        score    == random_uniform_score(shuffled.state)
    IN  /\ Len(rec_log) < MaxRecCalls
        /\ rng' = score.state
        /\ MOCK_PRODUCTS' = shuffled.value
        /\ rec_log' = Append(rec_log,
               [recommendations       |-> SubSeq(shuffled.value, 1, num.value),
                personalization_score |-> score.value,
                user_id               |-> userId,
                algorithm             |-> "mock_content_based",
                total_products        |-> Len(MOCK_PRODUCTS)])
        /\ UNCHANGED << SERPAPI_KEY, req,
                        cls_query, cls_result, ext_input, ext_output, loop >>

\* GET /recommendations?userId=...: the handler has no await, so it runs as
\* one step of the event loop
get_recommendations(userId) ==
    LET r == recommendation(rng, userId, MOCK_PRODUCTS)
    IN  /\ Len(rec_log) < MaxRecCalls
        /\ rng' = r.state
        /\ rec_log' = Append(rec_log, r.response)
        /\ UNCHANGED << SERPAPI_KEY, MOCK_PRODUCTS, req,
                        cls_query, cls_result, ext_input, ext_output, loop >>

-----------------------------------------------------------------------------
(* search_products *)

\* what `await client.get(...)` gives: an exception raised by the transport
\* (exc), or a response with a status code whose .json() is a payload or
\* raises
NoResponse == [exc |-> "none", status_code |-> 0, json |-> Raise("none")]

TransportError(exc) == [exc |-> exc, status_code |-> 0, json |-> Raise("none")]

HttpResponse(status_code, json) ==
    [exc |-> "none", status_code |-> status_code, json |-> json]

\* subclasses of httpx.RequestError: a refused connection, a timeout
RequestErrors == {"ConnectError", "ReadTimeout"}

Digits == <<"0", "1", "2", "3", "4", "5", "6", "7", "8", "9">>

\* str(n) for n >= 0, as characters
RECURSIVE str_int(_)
str_int(n) ==
    IF n < 10 THEN <<Digits[n + 1]>>
    ELSE str_int(n \div 10) \o <<Digits[(n % 10) + 1]>>

\* the two envelopes; a message is the sequence of the pieces of its f-string
success_envelope(query_type, results) ==
    ("type" :> query_type) @@ ("results" :> results)

error_envelope(message) == ("error" :> message)

NoEnvelope == [k \in {} |-> <<>>]

\* lines 195-217: the provider parameters (dates as day numbers)
build_params(query, query_type, api_key, today) ==
    LET engine == IF query_type = "hotel" THEN "google_hotels"
                  ELSE "google_shopping"
        params == [engine |-> engine, q |-> query, hl |-> "en", gl |-> "us",
                   api_key |-> api_key]
    IN  IF engine = "google_hotels"
        THEN [check_in_date |-> today + 7, check_out_date |-> today + 8,
              adults |-> "2", currency |-> "USD", gl |-> "us", hl |-> "en"]
             @@ params
        ELSE params

\* a mutant of build_fallback_params: the retry repeats the primary query
build_fallback_params_same_query(params, query) == params

\* lines 243-248
build_fallback_params(params, query) ==
    [params EXCEPT !["q"] = <<"h","o","t","e","l","s"," ">> \o query]

\* a mutant of fallback_locals: fallback_params is another name of params
\* (the .copy() is missing), so the assignment of q shows in both
fallback_locals_aliased(params, query) ==
    [params          |-> build_fallback_params(params, query),
     fallback_params |-> build_fallback_params(params, query)]

\* lines 247-248: the handler's two parameter dicts after the fallback's
\* have been built from a copy
fallback_locals(params, query) ==
    [params          |-> params,
     fallback_params |-> build_fallback_params(params, query)]

\* lines 231-237 and 255-261: the first truthy list among the known keys
hotel_raw_results(payload) ==
    py_or(dict_get(payload, "hotels", None),
    py_or(dict_get(payload, "properties", None),
    py_or(dict_get(payload, "organic_results", None),
    py_or(dict_get(payload, "hotel_results", None),
          List(<<>>)))))

\* len(x) is defined
has_len(x) == x.t \in {"list", "str", "dict"}

\* lines 224-238: raw_results of a 200 primary response to a hotel query, or
\* the exception raised on the way (json(), payload.keys(), len())
primary_hotel_raw_results(response) ==
    IF ~response.json.ok THEN response.json
    ELSE IF response.json.val.t # "dict" THEN Raise("AttributeError")
    ELSE LET raw_results == hotel_raw_results(response.json.val.map)
         IN  IF has_len(raw_results) THEN Ok(raw_results)
             ELSE Raise("TypeError")

\* lines 250-264: raw_results after the fallback call.  Every exception of
\* the inner try is swallowed; raw_results keeps the empty primary list
\* unless line 255 had already rebound it
fallback_raw_results(response) ==
    IF response.exc # "none" THEN List(<<>>)
    ELSE IF response.status_code # 200 THEN List(<<>>)
    ELSE IF ~response.json.ok THEN List(<<>>)
    ELSE IF response.json.val.t # "dict" THEN List(<<>>)
    ELSE hotel_raw_results(response.json.val.map)

\* lines 266, 272-275
hotel_envelope(query_type, raw_results) ==
    LET results == extract_hotel_results(raw_results)
    IN  IF results.ok THEN Ok(success_envelope(query_type, results.val))
        ELSE results

\* a mutant of shopping_envelope: the hotel extractor is given the shopping
\* results
shopping_envelope_hotel_extractor(query_type, response) ==
    IF ~response.json.ok THEN response.json
    ELSE IF response.json.val.t # "dict" THEN Raise("AttributeError")
    ELSE LET raw_results == dict_get(response.json.val.map, "shopping_results",
                                     List(<<>>))
             results     == extract_hotel_results(raw_results)
         IN  IF results.ok THEN Ok(success_envelope(query_type, results.val))
             ELSE results

\* lines 224, 269-275
shopping_envelope(query_type, response) ==
    IF ~response.json.ok THEN response.json
    ELSE IF response.json.val.t # "dict" THEN Raise("AttributeError")
    ELSE LET raw_results == dict_get(response.json.val.map, "shopping_results",
                                     List(<<>>))
             results     == extract_shopping_results(raw_results)
         IN  IF results.ok THEN Ok(success_envelope(query_type, results.val))
             ELSE results

\* a mutant of outer_except: only httpx.RequestError is caught
outer_except_request_error_only(outcome) ==
    IF outcome.ok THEN [response |-> outcome.val, raised |-> "none"]
    ELSE IF outcome.exc \in RequestErrors
    THEN [response |-> error_envelope(<<"Network error contacting SerpAPI">>),
          raised |-> "none"]
    ELSE [response |-> NoEnvelope, raised |-> outcome.exc]

\* a mutant of outer_except: the generic clause comes first and catches the
\* transport errors too
outer_except_generic_first(outcome) ==
    IF outcome.ok THEN [response |-> outcome.val, raised |-> "none"]
    ELSE [response |-> error_envelope(<<"Unexpected server error: ", outcome.exc>>),
          raised |-> "none"]

\* lines 219, 279-282: what the caller gets for the outcome of the try body
outer_except(outcome) ==
    IF outcome.ok THEN [response |-> outcome.val, raised |-> "none"]
    ELSE IF outcome.exc \in RequestErrors
    THEN [response |-> error_envelope(<<"Network error contacting SerpAPI">>),
          raised |-> "none"]
    ELSE [response |-> error_envelope(<<"Unexpected server error: ", outcome.exc>>),
          raised |-> "none"]

\* a mutant of status_error: the message leaves the status code out
status_error_without_code(status_code) ==
    Ok(error_envelope(<<"SerpAPI error">>))

\* line 277
status_error(status_code) ==
    Ok(error_envelope(<<"SerpAPI error ">> \o str_int(status_code)))

IdleRequest ==
    [pc |-> "idle", query |-> <<>>, query_type |-> "none",
     params |-> [k \in {} |-> <<>>], calls |-> <<>>,
     primary |-> NoResponse, fallback |-> NoResponse,
     response |-> NoEnvelope, raised |-> "none", trace |-> <<>>]

\* the handler returns (or raises): events are the steps it took since the
\* last await
finish(r, events, outcome) ==
    LET got == outer_except(outcome)
    IN  [r EXCEPT !.pc = "done", !.response = got.response,
                  !.raised = got.raised,
                  !.trace = @ \o events \o
                            <<IF got.raised = "none" THEN "respond" ELSE "raise">>]

\* a mutant of key_configured: the key is not checked
key_configured_unchecked(api_key) == TRUE

\* line 188
key_configured(api_key) == api_key # ""

\* a mutant of status_ok: the status of the response is not looked at
status_ok_unchecked(status_code) == TRUE

\* line 223
status_ok(status_code) == status_code = 200

\* lines 224, 269-270: the shopping extractor is reached when json() gave an
\* object, whose .get is then called
shopping_extracts(response) ==
    /\ response.json.ok
    /\ response.json.val.t = "dict"

\* a mutant of needs_fallback: the retry is made whatever the primary gave
needs_fallback_always(raw_results) == TRUE

\* line 241: `if not raw_results`
needs_fallback(raw_results) == ~truthy(raw_results)

\* POST /search, lines 184-221: up to the first await
search_products(query, today) ==
    /\ req.pc = "idle"
    /\ IF ~key_configured(SERPAPI_KEY)
       THEN req' = [IdleRequest EXCEPT
                       !.pc = "done", !.query = query,
                       !.response = error_envelope(<<"SerpAPI key not configured">>),
                       !.trace = <<"respond">>]
       ELSE LET query_type == detect_query_type(query)
                params     == build_params(query, query_type, SERPAPI_KEY, today)
            IN  req' = [IdleRequest EXCEPT
                           !.pc = "await_primary", !.query = query,
                           !.query_type = query_type, !.params = params,
                           !.calls = <<params>>,
                           !.trace = <<"classify", "call">>]
    /\ UNCHANGED << SERPAPI_KEY, MOCK_PRODUCTS, rng, rec_log,
                    cls_query, cls_result, ext_input, ext_output, loop >>

\* lines 221-277: the primary call returns or raises; the handler runs to
\* its return or to the await of the fallback call
primary_returns(response) ==
    /\ req.pc = "await_primary"
    /\ LET r == [req EXCEPT !.primary = response]
       IN  IF response.exc # "none"
           THEN req' = finish(r, <<"failed">>, Raise(response.exc))
           ELSE IF ~status_ok(response.status_code)
           THEN req' = finish(r, <<"returned">>,
                              status_error(response.status_code))
           ELSE IF req.query_type = "hotel"
           THEN LET raw_results == primary_hotel_raw_results(response)
                IN  IF ~raw_results.ok
                    THEN req' = finish(r, <<"returned">>, raw_results)
                    ELSE IF needs_fallback(raw_results.val)
                    THEN LET locals == fallback_locals(req.params, req.query)
                         IN  req' = [r EXCEPT
                                        !.pc = "await_fallback",
                                        !.params = locals.params,
                                        !.calls = Append(@, locals.fallback_params),
                                        !.trace = @ \o <<"returned", "call">>]
                    ELSE req' = finish(r, <<"returned", "extract">>,
                                       hotel_envelope(req.query_type,
                                                      raw_results.val))
           ELSE req' = finish(r,
                              IF shopping_extracts(response)
                              THEN <<"returned", "extract">> ELSE <<"returned">>,
                              shopping_envelope(req.query_type, response))
    /\ UNCHANGED << SERPAPI_KEY, MOCK_PRODUCTS, rng, rec_log,
                    cls_query, cls_result, ext_input, ext_output, loop >>

\* lines 251-275: the fallback call returns or raises
fallback_returns(response) ==
    /\ req.pc = "await_fallback"
    /\ req' = finish([req EXCEPT !.fallback = response],
                     <<IF response.exc # "none" THEN "failed" ELSE "returned",
                       "extract">>,
                     hotel_envelope(req.query_type,
                                    fallback_raw_results(response)))
    /\ UNCHANGED << SERPAPI_KEY, MOCK_PRODUCTS, rng, rec_log,
                    cls_query, cls_result, ext_input, ext_output, loop >>

\* the response has gone to the caller: the handler's locals are gone, and
\* the next request starts from nothing
request_ends ==
    /\ req.pc = "done"
    /\ req' = IdleRequest
    /\ UNCHANGED << SERPAPI_KEY, MOCK_PRODUCTS, rng, rec_log,
                    cls_query, cls_result, ext_input, ext_output, loop >>

-----------------------------------------------------------------------------
(* Inputs *)

\* raw hotel records as the provider may send them
HotelFull ==
    Dict([name           |-> Str(<<"H","1">>),
          address        |-> Str(<<"1"," ","M","a","i","n">>),
          rate_per_night |-> Dict([lowest |-> Str(<<"$","9">>)]),
          overall_rating |-> Num(4),
          reviews        |-> Num(12),
          thumbnail      |-> Str(<<"t","0">>),
          link           |-> Str(<<"l","1">>),
          images         |-> List(<< Dict([thumbnail |-> Str(<<" ">>)]),
                                     Dict([thumbnail |-> Str(<<"u","1">>)]),
                                     Dict([thumbnail |-> Str(<<"u","2">>)]) >>),
          amenities      |-> List(<< Str(<<"w","i","f","i">>) >>),
          booking        |-> Dict([link |-> Str(<<"b","1">>), name |-> Str(<<"B">>)]),
          location       |-> Dict([city |-> Str(<<"N","Y">>)]),
          description    |-> Str(<<"d">>)])

HotelBare        == EmptyDict
HotelRateText    == Dict([name |-> Str(<<"H","2">>), rate_per_night |-> Str(<<"$","9">>)])
HotelRateNull    == Dict([rate_per_night |-> None])
HotelBookingText == Dict([booking |-> Str(<<"b","1">>)])
HotelLocationList == Dict([location |-> List(<< Str(<<"N","Y">>) >>)])
HotelThumbNumber == Dict([images |-> List(<< Dict([thumbnail |-> Num(5)]) >>)])
HotelThumbNull   == Dict([images |-> List(<< Dict([thumbnail |-> None]) >>)])
HotelImagesText  == Dict([thumbnail |-> Str(<<"t","0">>), images |-> Str(<<"u","1">>)])
HotelAmenityText == Dict([amenities |-> Str(<<"w","i","f","i">>), booking |-> EmptyDict])

\* raw shopping records
ShopFull ==
    Dict([title |-> Str(<<"T","1">>), price |-> Str(<<"$","5">>), link |-> Str(<<"l","1">>),
          product_link |-> Str(<<"p","1">>), source |-> Str(<<"S">>),
          thumbnail |-> Str(<<"t","1">>), tag |-> Str(<<"x">>), delivery |-> Str(<<"d">>),
          rating |-> Num(4), reviews |-> Num(7), extracted_price |-> Num(5),
          extracted_price_old |-> Num(6)])

ShopProductLink == Dict([title |-> Str(<<"T","2">>), product_link |-> Str(<<"p","2">>)])
ShopEmptyLink   == Dict([link |-> EmptyStr, product_link |-> Str(<<"p","3">>)])
ShopBare        == EmptyDict
ShopNullTitle   == Dict([title |-> None, link |-> Num(0)])

NotARecord == Str(<<"x">>)

\* payloads of a 200 response
Payloads ==
    { EmptyDict,
      Dict([hotels |-> List(<<>>), properties |-> List(<<HotelFull, HotelBare>>)]),
      Dict([properties |-> List(<<HotelRateText>>)]),
      Dict([hotels |-> Num(3)]),
      Dict([shopping_results |-> List(<<ShopFull, ShopProductLink>>)]),
      Dict([shopping_results |-> None]),
      List(<<>>) }

ErrorBody == Dict([error |-> Str(<<"u","p","s","t","r","e","a","m">>)])

ErrorStatuses == {404, 500}

ProviderResponses ==
    { TransportError(e) : e \in RequestErrors }
    \cup { HttpResponse(c, Ok(ErrorBody)) : c \in ErrorStatuses }
    \cup { HttpResponse(200, Raise("JSONDecodeError")) }
    \cup { HttpResponse(200, Ok(p)) : p \in Payloads }

SearchQueries ==
    { <<"l","a","p","t","o","p"," ","b","a","g">>,
      <<"r","e","s","o","r","t"," ","i","n"," ","M","i","a","m","i">>,
      <<"H","i","l","t","o","n">> }

\* datetime.date.today(), as a day number
Days == {20000, 20001}

MaxUserId == 2
UserIds == (-1)..MaxUserId

\* the generator is seeded from the system at import
InitialRngStates == {1, 2}

ApiKeys == {"", "test_key"}

-----------------------------------------------------------------------------
(* The service *)

NoExtraction == [done |-> {}, hotel |-> Ok(<<>>), shopping |-> Ok(<<>>)]

\* no task has been started and no task holds the event loop
NoTask ==
    [pc |-> "new", userId |-> 0, num_recommendations |-> 0,
     recommended_products |-> <<>>, personalization_score |-> 0]

MaxTasks == 2

TaskIds == 1..MaxTasks

IdleLoop == [running |-> 0, tasks |-> [t \in TaskIds |-> NoTask]]

PureIdle ==
    /\ loop = IdleLoop
    /\ cls_query = <<>>
    /\ cls_result = "none"
    /\ ext_input = List(<<>>)
    /\ ext_output = NoExtraction

ServiceIdle ==
    /\ loop = IdleLoop
    /\ SERPAPI_KEY = ""
    /\ MOCK_PRODUCTS = CATALOG
    /\ rng = 1
    /\ rec_log = <<>>
    /\ req = IdleRequest

Init ==
    /\ SERPAPI_KEY \in ApiKeys
    /\ MOCK_PRODUCTS = CATALOG
    /\ rng \in InitialRngStates
    /\ rec_log = <<>>
    /\ req = IdleRequest
    /\ PureIdle

Next ==
    \/ \E userId \in UserIds : get_recommendations(userId)
    \/ \E query \in SearchQueries, today \in Days : search_products(query, today)
    \/ \E response \in ProviderResponses : primary_returns(response)
    \/ \E response \in ProviderResponses : fallback_returns(response)
    \/ request_ends

Spec == Init /\ [][Next]_vars

\* Each provider call is awaited with timeout=30.0 (lines 221 and 251): it
\* returns a response or raises within that time, so a request waiting on a
\* call is resumed.
FairSpec ==
    /\ Spec
    /\ WF_vars(\E response \in ProviderResponses : primary_returns(response))
    /\ WF_vars(\E response \in ProviderResponses : fallback_returns(response))

-----------------------------------------------------------------------------
(* get_recommendations step by step, as tasks of the event loop *)

\* a mutant of yields: the handler awaits right after seeding
yields_after_seed(step) == step = "seed"

\* whether the handler gives the event loop back after a step: lines 49-62
\* hold no await, so it keeps the loop from its first statement to its return
yields(step) == FALSE

\* task t may run: the loop is free, or t holds it
may_run(t) == loop.running \in {0, t}

\* the loop after task t has made a step that left its locals as given
after_step(t, step, locals) ==
    [loop EXCEPT !.running = IF yields(step) THEN 0 ELSE t,
                 !.tasks[t] = locals]

\* line 49
get_recommendations_seed(t, userId) ==
    /\ may_run(t)
    /\ loop.tasks[t].pc = "new"
    /\ rng' = random_seed(rng, userId)
    /\ loop' = after_step(t, "seed",
                    [loop.tasks[t] EXCEPT !.pc = "seeded", !.userId = userId])
    /\ UNCHANGED << SERPAPI_KEY, MOCK_PRODUCTS, rec_log, req,
                    cls_query, cls_result, ext_input, ext_output >>

\* line 50
get_recommendations_randint(t) ==
    LET d == random_randint(rng, 3, 5)
    IN  /\ may_run(t)
        /\ loop.tasks[t].pc = "seeded"
        /\ rng' = d.state
        /\ loop' = after_step(t, "randint",
                        [loop.tasks[t] EXCEPT !.pc = "counted",
                                              !.num_recommendations = d.value])
        /\ UNCHANGED << SERPAPI_KEY, MOCK_PRODUCTS, rec_log, req,
                        cls_query, cls_result, ext_input, ext_output >>

\* line 51
get_recommendations_sample(t) ==
    LET d == random_sample(rng, MOCK_PRODUCTS, loop.tasks[t].num_recommendations)
    IN  /\ may_run(t)
        /\ loop.tasks[t].pc = "counted"
        /\ rng' = d.state
        /\ loop' = after_step(t, "sample",
                        [loop.tasks[t] EXCEPT !.pc = "sampled",
                                              !.recommended_products = d.value])
        /\ UNCHANGED << SERPAPI_KEY, MOCK_PRODUCTS, rec_log, req,
                        cls_query, cls_result, ext_input, ext_output >>

\* lines 54 and 58
get_recommendations_uniform(t) ==
    LET d == random_uniform_score(rng)
    IN  /\ may_run(t)
        /\ loop.tasks[t].pc = "sampled"
        /\ rng' = d.state
        /\ loop' = after_step(t, "uniform",
                        [loop.tasks[t] EXCEPT !.pc = "scored",
                                              !.personalization_score = d.value])
        /\ UNCHANGED << SERPAPI_KEY, MOCK_PRODUCTS, rec_log, req,
                        cls_query, cls_result, ext_input, ext_output >>

\* lines 56-62: the return gives the loop back
get_recommendations_return(t) ==
    /\ may_run(t)
    /\ loop.tasks[t].pc = "scored"
    /\ loop' = [loop EXCEPT !.running = 0, !.tasks[t].pc = "returned"]
    /\ UNCHANGED << SERPAPI_KEY, MOCK_PRODUCTS, rng, rec_log, req,
                    cls_query, cls_result, ext_input, ext_output >>

\* lines 56-62: the response built from the locals
task_response(locals) ==
    [recommendations       |-> locals.recommended_products,
     personalization_score |-> locals.personalization_score,
     user_id               |-> locals.userId,
     algorithm             |-> "mock_content_based",
     total_products        |-> Len(MOCK_PRODUCTS)]

\* a /search handler runs from one await to the next when the loop is free
NextLoop ==
    \/ \E t \in TaskIds, userId \in UserIds : get_recommendations_seed(t, userId)
    \/ \E t \in TaskIds : get_recommendations_randint(t)
    \/ \E t \in TaskIds : get_recommendations_sample(t)
    \/ \E t \in TaskIds : get_recommendations_uniform(t)
    \/ \E t \in TaskIds : get_recommendations_return(t)
    \/ /\ loop.running = 0
       /\ \E query \in SearchQueries, today \in Days : search_products(query, today)
    \/ /\ loop.running = 0
       /\ \E response \in ProviderResponses : primary_returns(response)
    \/ /\ loop.running = 0
       /\ \E response \in ProviderResponses : fallback_returns(response)
    \/ loop.running = 0 /\ request_ends

SpecLoop == Init /\ [][NextLoop]_vars

-----------------------------------------------------------------------------
(* detect_query_type on its own *)

TestQueries ==
    { <<"s","n","e","a","k","e","r","s"," ","u","n","d","e","r"," ","$","1","0","0">>,
      <<"h","o","t","e","l","s"," ","i","n"," ","S","a","l","t"," ","L","a","k","e"," ","C","i","t","y">>,
      <<"m","o","t","e","l","s"," ","u","n","d","e","r"," ","2","0","0">>,
      <<"i","P","h","o","n","e"," ","c","a","s","e">>,
      <<"r","e","s","o","r","t"," ","i","n"," ","M","i","a","m","i">>,
      <<"l","a","p","t","o","p"," ","b","a","g">>,
      <<"b","e","d"," ","a","n","d"," ","b","r","e","a","k","f","a","s","t"," ","i","n"," ","V","e","r","m","o","n","t">>,
      <<"N","i","k","e"," ","s","n","e","a","k","e","r","s"," ","u","n","d","e","r"," ","$","1","0","0">>,
      <<"H","o","t","e","l","s"," ","i","n"," ","S","a","l","t"," ","L","a","k","e"," ","C","i","t","y">>,
      <<"m","o","t","e","l","s"," ","u","n","d","e","r"," ","$","2","0","0">>,
      <<"i","P","h","o","n","e"," ","1","5"," ","c","a","s","e">>,
      <<"v","a","c","a","t","i","o","n"," ","r","e","n","t","a","l"," ","i","n"," ","H","a","w","a","i","i">> }

Alphabet == {"i", "n", "N", "b", "B", "&", " "}

MaxQueryLen == 3

RECURSIVE Words(_)
Words(n) ==
    IF n = 0 THEN { <<>> }
    ELSE LET shorter == Words(n - 1)
         IN  shorter \cup { Append(w, c) : w \in { x \in shorter : Len(x) = n - 1 },
                                           c \in Alphabet }

AllKeywords == Range(hotel_keywords) \cup Range(hotel_brands)

LowerToUpper == [c \in { UpperToLower[u] : u \in DOMAIN UpperToLower } |->
                    CHOOSE u \in DOMAIN UpperToLower : UpperToLower[u] = c]

upper(s) == [i \in 1..Len(s) |-> IF s[i] \in DOMAIN LowerToUpper
                                 THEN LowerToUpper[s[i]] ELSE s[i]]

\* each keyword and brand as typed, in capitals, inside other text, and with
\* its last character missing
KeywordQueries ==
    UNION { { k, upper(k), <<"x">> \o k, k \o <<"x">>,
              <<"a", " ">> \o upper(k) \o <<" ", "z">>,
              SubSeq(k, 1, Len(k) - 1) } : k \in AllKeywords }

ClassifierQueries == TestQueries \cup Words(MaxQueryLen) \cup KeywordQueries

InitClassify ==
    /\ cls_query \in ClassifierQueries
    /\ cls_result = "none"
    /\ ext_input = List(<<>>)
    /\ ext_output = NoExtraction
    /\ ServiceIdle

classify ==
    /\ cls_result = "none"
    /\ cls_result' = detect_query_type(cls_query)
    /\ UNCHANGED << SERPAPI_KEY, MOCK_PRODUCTS, rng, rec_log, req,
                    cls_query, ext_input, ext_output, loop >>

SpecClassify == InitClassify /\ [][classify]_vars

-----------------------------------------------------------------------------
(* The extractors on their own *)

SampleRecords ==
    { HotelFull, HotelBare, HotelRateText, HotelRateNull, HotelBookingText,
      HotelLocationList, HotelThumbNumber, HotelThumbNull, HotelImagesText,
      HotelAmenityText, ShopFull, ShopProductLink, ShopEmptyLink,
      ShopNullTitle, NotARecord }

MaxRecords == 2

RECURSIVE ListsOver(_, _)
ListsOver(S, n) ==
    IF n = 0 THEN { <<>> }
    ELSE LET shorter == ListsOver(S, n - 1)
         IN  shorter \cup { Append(l, x) : l \in { y \in shorter : Len(y) = n - 1 },
                                           x \in S }

\* thumbnail texts: empty, blank, plain, padded
ThumbTexts ==
    { <<>>, <<" ">>, <<"\t", "\n">>, <<"u","1">>, <<" ","u","2"," ">> }

MaxImages == 3

\* hotel records whose images array holds objects with thumbnail texts
ImageRecords ==
    { Dict([thumbnail |-> Str(<<"t","0">>),
            images    |-> List([i \in 1..Len(texts) |->
                                  Dict([thumbnail |-> Str(texts[i])])])]) :
        texts \in ListsOver(ThumbTexts, MaxImages) }

ExtractorInputs ==
    { List(l) : l \in ListsOver(SampleRecords, MaxRecords) }
    \cup { List(<<r>>) : r \in ImageRecords }
    \cup { List(<<HotelBare, r>>) : r \in ImageRecords }

InitExtract ==
    /\ ext_input \in ExtractorInputs
    /\ ext_output = NoExtraction
    /\ cls_query = <<>>
    /\ cls_result = "none"
    /\ ServiceIdle

run_extract_hotel_results ==
    /\ "hotel" \notin ext_output.done
    /\ ext_output' = [ext_output EXCEPT !.done = @ \cup {"hotel"},
                                        !.hotel = extract_hotel_results(ext_input)]
    /\ UNCHANGED << SERPAPI_KEY, MOCK_PRODUCTS, rng, rec_log, req,
                    cls_query, cls_result, ext_input, loop >>

run_extract_shopping_results ==
    /\ "shopping" \notin ext_output.done
    /\ ext_output' = [ext_output EXCEPT !.done = @ \cup {"shopping"},
                                        !.shopping = extract_shopping_results(ext_input)]
    /\ UNCHANGED << SERPAPI_KEY, MOCK_PRODUCTS, rng, rec_log, req,
                    cls_query, cls_result, ext_input, loop >>

NextExtract == run_extract_hotel_results \/ run_extract_shopping_results

SpecExtract == InitExtract /\ [][NextExtract]_vars

-----------------------------------------------------------------------------
(* get_recommendations on its own, one call per process, many users *)

MaxWideUserId == 60

WideUserIds == (-MaxWideUserId)..MaxWideUserId

InitRecommend ==
    /\ SERPAPI_KEY = ""
    /\ MOCK_PRODUCTS = CATALOG
    /\ rng \in InitialRngStates
    /\ rec_log = <<>>
    /\ req = IdleRequest
    /\ PureIdle

NextRecommend ==
    \E userId \in WideUserIds : rec_log = <<>> /\ get_recommendations(userId)

SpecRecommend == InitRecommend /\ [][NextRecommend]_vars

-----------------------------------------------------------------------------
(* Claims about detect_query_type *)

\* keyword occurs in query at some offset, upper-case letters of the query
\* matching their lower-case letter
OccursIgnoringCase(query, keyword) ==
    \E offset \in 0..(Len(query) - Len(keyword)) :
        \A j \in 1..Len(keyword) :
            \/ query[offset + j] = keyword[j]
            \/ /\ query[offset + j] \in DOMAIN UpperToLower
               /\ UpperToLower[query[offset + j]] = keyword[j]

ShoppingFixtures ==
    { <<"N","i","k","e"," ","s","n","e","a","k","e","r","s"," ","u","n","d","e","r"," ","$","1","0","0">>,
      <<"i","P","h","o","n","e"," ","1","5"," ","c","a","s","e">>,
      <<"l","a","p","t","o","p"," ","b","a","g">> }

HotelFixtures ==
    { <<"H","o","t","e","l","s"," ","i","n"," ","S","a","l","t"," ","L","a","k","e"," ","C","i","t","y">>,
      <<"m","o","t","e","l","s"," ","u","n","d","e","r"," ","$","2","0","0">>,
      <<"r","e","s","o","r","t"," ","i","n"," ","M","i","a","m","i">>,
      <<"b","e","d"," ","a","n","d"," ","b","r","e","a","k","f","a","s","t"," ","i","n"," ","V","e","r","m","o","n","t">> }

\* C1: detect_query_type gives 'hotel' exactly when the query, ignoring
\* case, holds a hotel keyword or brand as a substring, and 'shopping'
\* otherwise; the test fixtures classify as the tests expect.
C1_ClassifierIsSubstringMatch ==
    cls_result # "none" =>
        /\ cls_result \in {"hotel", "shopping"}
        /\ (cls_result = "hotel") <=>
               (\E k \in AllKeywords : OccursIgnoringCase(cls_query, k))
        /\ cls_query \in ShoppingFixtures => cls_result = "shopping"
        /\ cls_query \in HotelFixtures => cls_result = "hotel"

\* a capitalised fixture has been classified as hotel
C1_Witness ==
    /\ cls_query = <<"H","o","t","e","l","s"," ","i","n"," ","S","a","l","t"," ","L","a","k","e"," ","C","i","t","y">>
    /\ cls_result = "hotel"

-----------------------------------------------------------------------------
(* Claims about the extractors *)

\* x is a list whose items are all records (dicts)
IsRecordList(x) ==
    /\ x.t = "list"
    /\ \A i \in 1..Len(x.items) : x.items[i].t = "dict"

\* C9: the extractors never raise on a list of records, whatever the shape
\* of the records' fields.
C9_ExtractorsNeverRaise ==
    IsRecordList(ext_input) =>
        /\ "hotel" \in ext_output.done => ext_output.hotel.ok
        /\ "shopping" \in ext_output.done => ext_output.shopping.ok

\* the record's images is a list of objects that each hold a thumbnail text
HasThumbnailObjects(rec) ==
    /\ "images" \in DOMAIN rec.map
    /\ rec.map["images"].t = "list"
    /\ \A i \in 1..Len(rec.map["images"].items) :
          LET img == rec.map["images"].items[i]
          IN  /\ img.t = "dict"
              /\ "thumbnail" \in DOMAIN img.map
              /\ img.map["thumbnail"].t = "str"

\* the text has a character that is not whitespace
NonBlank(text) == \E i \in 1..Len(text) : text[i] \notin Whitespace

NonBlankThumbnails(rec) ==
    LET imgs == rec.map["images"].items
    IN  SelectSeq([i \in 1..Len(imgs) |-> imgs[i].map["thumbnail"]],
                  LAMBDA url : NonBlank(url.s))

\* C10: for a hotel record whose images is a list of objects with thumbnail
\* texts, the output images is the ordered list of the non-blank thumbnails
\* and the output thumbnail is the first of them (when there is one); for a
\* record with no images key the output images is the empty list.
C10_ImagesAreNonBlankThumbnails ==
    ("hotel" \in ext_output.done /\ ext_output.hotel.ok /\ IsRecordList(ext_input)) =>
        \A i \in 1..Len(ext_input.items) :
            LET rec == ext_input.items[i]
                out == ext_output.hotel.val[i]
            IN  /\ HasThumbnailObjects(rec) =>
                      /\ out["images"] = List(NonBlankThumbnails(rec))
                      /\ NonBlankThumbnails(rec) # <<>> =>
                             out["thumbnail"] = NonBlankThumbnails(rec)[1]
                /\ "images" \notin DOMAIN rec.map =>
                      out["images"] = List(<<>>)

\* a record with no images key and one whose first thumbnail is blank and
\* whose other two are kept, in order
C10_Witness ==
    /\ "hotel" \in ext_output.done
    /\ ext_output.hotel.ok
    /\ Len(ext_input.items) = 2
    /\ "images" \notin DOMAIN ext_input.items[1].map
    /\ ext_output.hotel.val[1]["images"] = List(<<>>)
    /\ HasThumbnailObjects(ext_input.items[2])
    /\ Len(ext_input.items[2].map["images"].items) = 3
    /\ ext_input.items[2].map["images"].items[1].map["thumbnail"] = Str(<<" ">>)
    /\ ext_output.hotel.val[2]["images"] =
           List(<<Str(<<"u","1">>), Str(<<" ","u","2"," ">>)>>)
    /\ ext_output.hotel.val[2]["thumbnail"] = Str(<<"u","1">>)

ShoppingOutputFields ==
    {"title", "price", "link", "source", "thumbnail", "tag", "delivery",
     "rating", "reviews", "extracted_price", "old_price"}

\* the record holds a text of at least one character under key
HasText(rec, key) ==
    /\ key \in DOMAIN rec.map
    /\ rec.map[key].t = "str"
    /\ rec.map[key].s # <<>>

\* the record holds nothing under key: no such key, None, or the empty text
HasNothing(rec, key) ==
    key \in DOMAIN rec.map => rec.map[key] \in {None, EmptyStr}

\* C11: extract_shopping_results gives the empty list for the empty list;
\* for a record with no field, a record whose eleven fields are all the
\* empty string; link is the record's link when that is a non-empty text,
\* and the record's product_link (the empty string without one) when the
\* record has no link or an empty one.
C11_ShoppingDefaultsAndLinkFallback ==
    ("shopping" \in ext_output.done /\ IsRecordList(ext_input)) =>
        /\ ext_output.shopping.ok
        /\ ext_input.items = <<>> => ext_output.shopping.val = <<>>
        /\ \A i \in 1..Len(ext_input.items) :
              LET rec == ext_input.items[i]
                  out == ext_output.shopping.val[i]
              IN  /\ DOMAIN out = ShoppingOutputFields
                  /\ DOMAIN rec.map = {} =>
                        \A f \in ShoppingOutputFields : out[f] = EmptyStr
                  /\ HasText(rec, "link") => out["link"] = rec.map["link"]
                  /\ HasNothing(rec, "link") =>
                        out["link"] = IF "product_link" \in DOMAIN rec.map
                                      THEN rec.map["product_link"]
                                      ELSE EmptyStr

\* a record with no field and a record whose link is empty and whose
\* product_link is not have been extracted
C11_Witness ==
    /\ "shopping" \in ext_output.done
    /\ ext_input = List(<<ShopBare, ShopEmptyLink>>)
    /\ ext_output.shopping.ok
    /\ \A f \in ShoppingOutputFields : ext_output.shopping.val[1][f] = EmptyStr
    /\ ext_output.shopping.val[2]["link"] = Str(<<"p","3">>)

-----------------------------------------------------------------------------
(* Claims about /search *)

HotelResultKeys == {"hotels", "properties", "organic_results", "hotel_results"}

HotelsPrefix == <<"h","o","t","e","l","s"," ">>

\* the provider call succeeded (status 200, a JSON object) and the payload
\* holds no hotel result under any of the keys the handler reads
EmptyHotelAnswer(response) ==
    /\ response.exc = "none"
    /\ response.status_code = 200
    /\ response.json.ok
    /\ response.json.val.t = "dict"
    /\ \A k \in HotelResultKeys :
          k \in DOMAIN response.json.val.map =>
              ~truthy(response.json.val.map[k])

EmptyHotelEnvelope == ("type" :> "hotel") @@ ("results" :> <<>>)

\* C2: a hotel query whose primary call succeeds with an empty result list
\* leads to exactly one fallback call, with q = "hotels " + query; if the
\* fallback also gives no result the request ends with the success envelope
\* {type: 'hotel', results: []}.
C2_EmptyHotelAnswerFallsBackOnce ==
    (detect_query_type(req.query) = "hotel" /\ EmptyHotelAnswer(req.primary)) =>
        /\ req.pc \in {"await_fallback", "done"}
        /\ Len(req.calls) = 2
        /\ req.calls[1]["q"] = req.query
        /\ req.calls[2]["q"] = HotelsPrefix \o req.query
        /\ (req.pc = "done" /\ EmptyHotelAnswer(req.fallback)) =>
               req.response = EmptyHotelEnvelope

\* primary and fallback both answered with no hotel result
C2_Witness ==
    /\ req.pc = "done"
    /\ detect_query_type(req.query) = "hotel"
    /\ EmptyHotelAnswer(req.primary)
    /\ EmptyHotelAnswer(req.fallback)
    /\ Len(req.calls) = 2
    /\ req.response = EmptyHotelEnvelope

KeyNotConfiguredEnvelope == ("error" :> <<"SerpAPI key not configured">>)

\* C3: with SERPAPI_KEY not configured every /search request ends with
\* {"error": "SerpAPI key not configured"} and issues no provider call.
C3_NoKeyNoCall ==
    SERPAPI_KEY = "" =>
        /\ req.calls = <<>>
        /\ req.pc \in {"idle", "done"}
        /\ req.pc = "done" => req.response = KeyNotConfiguredEnvelope

\* a hotel query was answered without a key
C3_Witness ==
    /\ SERPAPI_KEY = ""
    /\ req.pc = "done"
    /\ detect_query_type(req.query) = "hotel"
    /\ req.response = KeyNotConfiguredEnvelope

\* the primary call failed: the transport raised, the status is not 200, the
\* body does not parse, or the payload is not a JSON object
PrimaryFailed(r) ==
    \/ r.primary.exc # "none"
    \/ /\ r.primary # NoResponse
       /\ \/ r.primary.status_code # 200
          \/ ~r.primary.json.ok
          \/ r.primary.json.val.t # "dict"

\* what the handler hands to the extractor when no call has failed
HandedToExtractor(r) ==
    IF r.query_type = "hotel"
    THEN LET first == hotel_raw_results(r.primary.json.val.map)
         IN  IF truthy(first) THEN first ELSE fallback_raw_results(r.fallback)
    ELSE dict_get(r.primary.json.val.map, "shopping_results", List(<<>>))

ExtractorFailed(r) ==
    /\ r.primary # NoResponse
    /\ ~PrimaryFailed(r)
    /\ IF r.query_type = "hotel"
       THEN ~extract_hotel_results(HandedToExtractor(r)).ok
       ELSE ~extract_shopping_results(HandedToExtractor(r)).ok

NetworkErrorEnvelope == ("error" :> <<"Network error contacting SerpAPI">>)

\* the call raised a transport error or came back with a status that is
\* not a success
TransportFailed(response) == response.exc \in {"ConnectError", "ReadTimeout"}

NonSuccessStatus(response) ==
    /\ response.exc = "none"
    /\ response # NoResponse
    /\ response.status_code \notin 200..299

StatusText == (404 :> <<"4","0","4">>) @@ (500 :> <<"5","0","0">>)

StatusErrorEnvelope(status_code) ==
    ("error" :> <<"SerpAPI error ">> \o StatusText[status_code])

-----------------------------------------------------------------------------
(* Claims about /recommendations *)

\* C7: two calls of get_recommendations with the same userId return the
\* same recommendation list and the same personalization_score, whatever
\* requests came between them.
C7_SameUserSameRecommendations ==
    \A i, j \in 1..Len(rec_log) :
        rec_log[i].user_id = rec_log[j].user_id =>
            /\ rec_log[i].recommendations = rec_log[j].recommendations
            /\ rec_log[i].personalization_score = rec_log[j].personalization_score

\* the same user asked twice, another user in between, a search in flight
C7_Witness ==
    /\ Len(rec_log) = 3
    /\ rec_log[1].user_id = rec_log[3].user_id
    /\ rec_log[2].user_id # rec_log[1].user_id
    /\ rec_log[2].recommendations # rec_log[1].recommendations
    /\ req.pc = "await_fallback"

\* C8: every recommendations list has 3, 4 or 5 entries, all items of the
\* 10-item catalog, none twice, and the catalog is never changed.
C8_RecommendationsAreDistinctCatalogItems ==
    /\ MOCK_PRODUCTS = CATALOG
    /\ Len(MOCK_PRODUCTS) = 10
    /\ \A i \in 1..Len(rec_log) :
          LET recs == rec_log[i].recommendations
          IN  /\ Len(recs) \in {3, 4, 5}
              /\ \A k \in 1..Len(recs) : recs[k] \in Range(CATALOG)
              /\ \A k, l \in 1..Len(recs) : k # l => recs[k] # recs[l]

\* lists of 3, 4 and 5 items have been returned
C8_Witness ==
    /\ MOCK_PRODUCTS = CATALOG
    /\ { Len(rec_log[i].recommendations) : i \in 1..Len(rec_log) } = {3, 4, 5}

-----------------------------------------------------------------------------
(* Claims about the state the requests share *)

\* C12 as stated: no step of a request handler writes process-wide state:
\* the catalog, the configured key and the generator of `random` are the
\* same after every step.
C12_HandlersWriteNoProcessState ==
    [][ /\ MOCK_PRODUCTS' = MOCK_PRODUCTS
        /\ SERPAPI_KEY' = SERPAPI_KEY
        /\ rng' = rng ]_vars

\* C12 amended: the catalog and the key are never written; the process-wide
\* generator is written, by get_recommendations alone (no step of a /search
\* request changes it), and no request reads what another left in it: the
\* response of a call is the one a fresh process gives for that userId.
C12_OnlyGeneratorWrittenNeverReadAcross ==
    [][ /\ MOCK_PRODUCTS' = MOCK_PRODUCTS
        /\ SERPAPI_KEY' = SERPAPI_KEY
        /\ req' # req => rng' = rng
        /\ rng' # rng => rec_log' # rec_log
        /\ rec_log' # rec_log =>
              LET response == rec_log'[Len(rec_log')]
              IN  \A fresh \in InitialRngStates :
                      response = recommendation(fresh, response.user_id,
                                                CATALOG).response ]_vars

\* two users were served one after the other while a search was waiting for
\* the provider, and the generator is where the second call left it
C12_Witness ==
    /\ Len(rec_log) = 2
    /\ rec_log[1].user_id # rec_log[2].user_id
    /\ rng \notin InitialRngStates
    /\ rng = recommendation(rng, rec_log[2].user_id, CATALOG).state
    /\ rng # recommendation(rng, rec_log[1].user_id, CATALOG).state
    /\ req.pc = "await_primary"

\* C13: every personalization_score returned is a whole number of
\* hundredths between 0.70 and 0.95.
C13_ScoreWithinRange ==
    \A i \in 1..Len(rec_log) :
        /\ rec_log[i].personalization_score \in Int
        /\ rec_log[i].personalization_score >= 70
        /\ rec_log[i].personalization_score <= 95

\* a user whose score is the upper end of the range
C13_Witness ==
    /\ Len(rec_log) = 1
    /\ rec_log[1].user_id = 50
    /\ rec_log[1].personalization_score = 95

-----------------------------------------------------------------------------
(* Claims about the calls of one /search request *)

\* the call came back with status 200 and a JSON object
Answered(response) ==
    /\ response.exc = "none"
    /\ response.status_code = 200
    /\ response.json.ok
    /\ response.json.val.t = "dict"

\* the answer holds a list of at least one item under a key the handler reads
HasResultList(response) ==
    /\ Answered(response)
    /\ hotel_raw_results(response.json.val.map).t = "list"
    /\ hotel_raw_results(response.json.val.map).items # <<>>

\* the response of a hotel request whose extractor was given raw_results
ExtractedFrom(raw_results) ==
    LET results == extract_hotel_results(raw_results)
    IN  IF results.ok
        THEN ("type" :> "hotel") @@ ("results" :> results.val)
        ELSE ("error" :> <<"Unexpected server error: ", results.exc>>)

\* C14: a shopping request issues at most one provider call and a hotel
\* request at most two; the second call is issued only after the primary
\* call succeeded with an empty result list; a non-empty primary list is
\* what the extractor is given, with no fallback call; an empty primary list
\* and a non-empty fallback list give the fallback list to the extractor.
C14_FallbackOnlyForEmptyHotelAnswer ==
    /\ Len(req.calls) <= 2
    /\ req.query_type = "shopping" => Len(req.calls) <= 1
    /\ Len(req.calls) = 2 =>
          /\ req.query_type = "hotel"
          /\ EmptyHotelAnswer(req.primary)
    /\ (req.pc = "done" /\ req.query_type = "hotel" /\ HasResultList(req.primary)) =>
          /\ Len(req.calls) = 1
          /\ req.fallback = NoResponse
          /\ req.response =
                 ExtractedFrom(hotel_raw_results(req.primary.json.val.map))
    /\ (req.pc = "done" /\ req.query_type = "hotel" /\ EmptyHotelAnswer(req.primary)
           /\ HasResultList(req.fallback)) =>
          req.response =
              ExtractedFrom(hotel_raw_results(req.fallback.json.val.map))

\* the primary answer was empty and the two records of the fallback answer
\* were extracted
C14_Witness ==
    /\ req.pc = "done"
    /\ req.query_type = "hotel"
    /\ req.primary = HttpResponse(200, Ok(EmptyDict))
    /\ HasResultList(req.fallback)
    /\ Len(req.calls) = 2
    /\ DOMAIN req.response = {"type", "results"}
    /\ Len(req.response["results"]) = 2

-----------------------------------------------------------------------------
(* Claims about the order of the steps of one /search request *)

\* the stage of the handler an event belongs to
Stage(event) ==
    CASE event = "classify"                       -> 1
      [] event \in {"call", "returned", "failed"} -> 2
      [] event = "extract"                        -> 3
      [] event \in {"respond", "raise"}           -> 4

Occurrences(trace, event) == Cardinality({ i \in 1..Len(trace) : trace[i] = event })

\* the steps so far are in the order classify, provider calls, extractor,
\* response; calls and their returns alternate; the extractor runs at most
\* once, and only after the primary call came back with status 200
StepsInOrder(r) ==
    /\ \A i, j \in 1..Len(r.trace) : i < j => Stage(r.trace[i]) <= Stage(r.trace[j])
    /\ r.trace # <<>> => r.trace[1] = "classify"
    /\ Occurrences(r.trace, "classify") <= 1
    /\ \A i \in 2..Len(r.trace) :
          /\ r.trace[i] = "call" => r.trace[i - 1] \in {"classify", "returned"}
          /\ r.trace[i] \in {"returned", "failed"} => r.trace[i - 1] = "call"
    /\ Occurrences(r.trace, "extract") <= 1
    /\ Occurrences(r.trace, "extract") = 1 =>
          /\ \E i, j \in 1..Len(r.trace) :
                i < j /\ r.trace[i] = "returned" /\ r.trace[j] = "extract"
          /\ r.primary.exc = "none"
          /\ r.primary.status_code = 200

\* a request that is done has produced one response, as its last step, and
\* that response is one of the two envelopes
OneOutcome(r) ==
    /\ Occurrences(r.trace, "respond") + Occurrences(r.trace, "raise")
           = (IF r.pc = "done" THEN 1 ELSE 0)
    /\ r.pc = "done" =>
          /\ r.trace[Len(r.trace)] = "respond"
          /\ DOMAIN r.response \in { {"error"}, {"type", "results"} }
          /\ Len(r.calls) = Occurrences(r.trace, "call")

\* C15: with a configured key every /search request runs classify, the
\* primary call, the fallback call if any, the extractor, the response, in
\* that order: the extractor is not reached before a call has come back
\* with status 200, no call is issued after the extractor or the response,
\* the response of a finished request is not replaced, and every request that
\* was started reaches its one response.
C15_StepsInOrderAndRequestEnds ==
    /\ [](SERPAPI_KEY # "" => (StepsInOrder(req) /\ OneOutcome(req)))
    /\ [][req.pc = "done" => req' \in {req, IdleRequest}]_vars
    /\ (req.pc \in {"await_primary", "await_fallback"}) ~> (req.pc = "done")

\* a hotel request that went through every step
C15_Witness ==
    /\ SERPAPI_KEY # ""
    /\ req.pc = "done"
    /\ req.trace = <<"classify", "call", "returned", "call", "returned",
                     "extract", "respond">>
    /\ DOMAIN req.response = {"type", "results"}

-----------------------------------------------------------------------------
(* Claims about the parameters of the fallback call *)

SharedParams ==
    {"engine", "hl", "gl", "api_key", "check_in_date", "check_out_date",
     "adults", "currency"}

\* C16: the fallback call carries the parameters of the primary call with
\* only q changed, to "hotels " + the query, and the handler's primary
\* parameter set is, after the fallback's has been built, still what the
\* primary call was sent with.
C16_FallbackParamsDifferInQueryOnly ==
    Len(req.calls) = 2 =>
        /\ DOMAIN req.calls[1] = SharedParams \cup {"q"}
        /\ DOMAIN req.calls[2] = DOMAIN req.calls[1]
        /\ \A k \in SharedParams : req.calls[2][k] = req.calls[1][k]
        /\ req.calls[1]["q"] = req.query
        /\ req.calls[2]["q"] = HotelsPrefix \o req.query
        /\ req.calls[2]["q"] # req.calls[1]["q"]
        /\ req.params = req.calls[1]

\* the fallback call for "Hilton" is in flight with the dates of the primary
C16_Witness ==
    /\ req.pc = "await_fallback"
    /\ Len(req.calls) = 2
    /\ req.calls[1]["q"] = <<"H","i","l","t","o","n">>
    /\ req.calls[2]["q"] = <<"h","o","t","e","l","s"," ","H","i","l","t","o","n">>
    /\ req.calls[2]["check_in_date"] = 20007
    /\ req.calls[2]["check_out_date"] = 20008
    /\ req.params["q"] = <<"H","i","l","t","o","n">>

-----------------------------------------------------------------------------
(* Claims about the draws of get_recommendations under the event loop *)

\* task t has seeded the generator and not yet made its last draw
MidDraws(t) == loop.tasks[t].pc \in {"seeded", "counted", "sampled"}

\* C17: from its seed to its last draw a get_recommendations task is the
\* only one to step: while it is between the two, every step is its own
\* and no other task or /search request moves (or touches the generator); and
\* the response of every task is the one its userId gets from a process
\* that serves nothing else.
C17_DrawsAreNotInterleaved ==
    /\ [](\A t \in TaskIds :
            loop.tasks[t].pc = "returned" =>
                \A fresh \in InitialRngStates :
                    task_response(loop.tasks[t]) =
                        recommendation(fresh, loop.tasks[t].userId, CATALOG).response)
    /\ [][\A t \in TaskIds :
              MidDraws(t) =>
                  /\ loop'.tasks[t].pc # loop.tasks[t].pc
                  /\ req' = req
                  /\ \A u \in TaskIds \ {t} : loop'.tasks[u] = loop.tasks[u]]_vars

\* two users, the second served after the first while a search waits for
\* the provider, each with the response it gets alone
C17_Witness ==
    /\ \A t \in {1, 2} : loop.tasks[t].pc = "returned"
    /\ loop.tasks[1].userId = 1
    /\ loop.tasks[2].userId = 2
    /\ task_response(loop.tasks[1]) = recommendation(1, 1, CATALOG).response
    /\ task_response(loop.tasks[2]) = recommendation(1, 2, CATALOG).response
    /\ task_response(loop.tasks[1]).recommendations
           # task_response(loop.tasks[2]).recommendations
    /\ req.pc = "await_fallback"

-----------------------------------------------------------------------------
(* Claims about the envelope of a /search response *)

\* C18: every response of search_products is {error} or {type, results},
\* never both and never neither; in {type, results}, type is what
\* detect_query_type gives for the request's query, and results is what
\* extract_hotel_results (type 'hotel') or extract_shopping_results (type
\* 'shopping') gives for the provider's result list.
C18_ResponseIsOneEnvelope ==
    req.pc = "done" =>
        /\ req.raised = "none"
        /\ \/ DOMAIN req.response = {"error"}
           \/ DOMAIN req.response = {"type", "results"}
        /\ DOMAIN req.response = {"type", "results"} =>
              /\ req.response["type"] = detect_query_type(req.query)
              /\ req.response["type"] = "hotel" =>
                    Ok(req.response["results"]) =
                        extract_hotel_results(HandedToExtractor(req))
              /\ req.response["type"] = "shopping" =>
                    Ok(req.response["results"]) =
                        extract_shopping_results(HandedToExtractor(req))

\* a shopping request answered with two products
C18_Witness ==
    /\ req.pc = "done"
    /\ req.query = <<"l","a","p","t","o","p"," ","b","a","g">>
    /\ DOMAIN req.response = {"type", "results"}
    /\ req.response["type"] = "shopping"
    /\ Len(req.response["results"]) = 2
    /\ req.response["results"][2]["link"] = Str(<<"p","2">>)

-----------------------------------------------------------------------------
(* Claims about the extractors as maps over the result list *)

\* a hotel record whose nested objects, where it has them, are objects and
\* whose image thumbnails are texts
WellFormedHotel(rec) ==
    /\ rec.t = "dict"
    /\ \A k \in {"rate_per_night", "booking", "location"} :
          k \in DOMAIN rec.map => rec.map[k].t = "dict"
    /\ ("images" \in DOMAIN rec.map /\ rec.map["images"].t = "list") =>
          \A i \in 1..Len(rec.map["images"].items) :
              LET img == rec.map["images"].items[i]
              IN  (img.t = "dict" /\ "thumbnail" \in DOMAIN img.map) =>
                      img.map["thumbnail"].t = "str"

WellFormedShopping(rec) == rec.t = "dict"

\* what a record holds under key, the empty string without it
FieldOf(rec, key) == IF key \in DOMAIN rec.map THEN rec.map[key] ELSE EmptyStr

\* C19: on a list of well-formed records each extractor returns a list of
\* the same length whose i-th record is what the extractor gives for the
\* i-th input record alone (its name, or title, is that record's); and no
\* step changes the input list.
C19_ExtractorsMapRecordByRecord ==
    /\ []((ext_input.t = "list" /\ "hotel" \in ext_output.done
            /\ \A i \in 1..Len(ext_input.items) : WellFormedHotel(ext_input.items[i])) =>
              /\ ext_output.hotel.ok
              /\ Len(ext_output.hotel.val) = Len(ext_input.items)
              /\ \A i \in 1..Len(ext_input.items) :
                    /\ Ok(<<ext_output.hotel.val[i]>>) =
                           extract_hotel_results(List(<<ext_input.items[i]>>))
                    /\ ext_output.hotel.val[i]["name"] =
                           FieldOf(ext_input.items[i], "name"))
    /\ []((ext_input.t = "list" /\ "shopping" \in ext_output.done
            /\ \A i \in 1..Len(ext_input.items) : WellFormedShopping(ext_input.items[i])) =>
              /\ ext_output.shopping.ok
              /\ Len(ext_output.shopping.val) = Len(ext_input.items)
              /\ \A i \in 1..Len(ext_input.items) :
                    /\ Ok(<<ext_output.shopping.val[i]>>) =
                           extract_shopping_results(List(<<ext_input.items[i]>>))
                    /\ ext_output.shopping.val[i]["title"] =
                           FieldOf(ext_input.items[i], "title"))
    /\ [][ext_input' = ext_input]_vars

\* two different records went through both extractors, in their order
C19_Witness ==
    /\ ext_output.done = {"hotel", "shopping"}
    /\ ext_input = List(<<HotelFull, ShopProductLink>>)
    /\ ext_output.hotel.ok
    /\ ext_output.shopping.ok
    /\ ext_output.hotel.val[1]["name"] = Str(<<"H","1">>)
    /\ ext_output.hotel.val[2]["name"] = EmptyStr
    /\ ext_output.shopping.val[1]["title"] = EmptyStr
    /\ ext_output.shopping.val[2]["title"] = Str(<<"T","2">>)

====
